---- MODULE Spec2Model ----
(***************************************************************************)
(* A model of the simple-chatroom relay: the chat_message frame codec      *)
(* (chat_message.hpp), the server's chat_room / chat_session / chat_server *)
(* and the client's chat_client and main loop (chat_server.cpp).           *)
(*                                                                         *)
(* Bytes are one-character strings; "NUL" stands for the byte 0.  The four  *)
(* header bytes are a sequence of bytes.  Longer byte strings (bodies,     *)
(* input lines, write buffers) are kept run-length encoded, as a sequence  *)
(* of runs [n, b] (n >= 1 copies of the byte b, neighbouring runs of       *)
(* different bytes): every byte string has exactly one such encoding, and  *)
(* RLen, RTake, RDrop and RCat are length, prefix, suffix and              *)
(* concatenation on it.  A                                                 *)
(* chat_message is the record [header, body, body_length]: header is       *)
(* data_[0..3] and body is the part of data_[4..515] that has been written *)
(* so far (every write to it starts at body(), so that part is a prefix);  *)
(* the message's body bytes are the first body_length of them.             *)
(***************************************************************************)
EXTENDS Integers, Sequences, FiniteSets, TLC

\* ------------------------------------------------------------------------
\* Program constants
\* ------------------------------------------------------------------------
header_length == 4
max_body_length == 512
max_recent_msgs == 100

\* ------------------------------------------------------------------------
\* Bounds of the model
\* ------------------------------------------------------------------------
\* Largest body length requested of chat_message::body_length(new_length).
MaxReqLen == 600
\* Connections the listener accepts (session objects ever created).
NumSessions == 2
\* Calls of chat_room::deliver in one run.
MaxDelivers == 3
\* Failed accepts in one run.
MaxAcceptErrors == 1
\* Writes one session's transport completes in one run.
MaxWrites == 3
\* Calls of chat_room::deliver made before a run that starts with a history.
PreFill == 99
\* Calls of chat_room::deliver in a run whose writes all complete.
MaxLiveDelivers == 2
\* Lines on the client's standard input.
MaxLines == 2
\* Messages the client receives in one run.
MaxReceived == 1

\* ------------------------------------------------------------------------
\* Bytes
\* ------------------------------------------------------------------------
DigitChars == <<"0", "1", "2", "3", "4", "5", "6", "7", "8", "9">>

IsDigit(c) == \E i \in 1..10 : DigitChars[i] = c

DigitVal(c) == (CHOOSE i \in 1..10 : DigitChars[i] = c) - 1

\* isspace() of the C locale (the vertical tab is not writable here).
IsSpace(c) == c \in {" ", "\t", "\n", "\r", "\f"}

\* n copies of the byte b, as a sequence of bytes.
Fill(n, b) == [i \in 1..n |-> b]

\* Run-length encoded byte strings.
RFill(n, b) == IF n <= 0 THEN <<>> ELSE <<[n |-> n, b |-> b]>>

RECURSIVE RLen(_)
RLen(r) == IF r = <<>> THEN 0 ELSE r[1].n + RLen(Tail(r))

RCat(x, y) ==
    IF x = <<>> THEN y
    ELSE IF y = <<>> THEN x
    ELSE IF x[Len(x)].b = y[1].b
         THEN SubSeq(x, 1, Len(x) - 1)
              \o <<[n |-> x[Len(x)].n + y[1].n, b |-> y[1].b]>> \o Tail(y)
         ELSE x \o y

\* The first k bytes of r (all of r when it has fewer).
RECURSIVE RTake(_, _)
RTake(r, k) ==
    IF k <= 0 \/ r = <<>> THEN <<>>
    ELSE IF r[1].n <= k THEN <<r[1]>> \o RTake(Tail(r), k - r[1].n)
    ELSE <<[n |-> k, b |-> r[1].b]>>

\* r without its first k bytes.
RECURSIVE RDrop(_, _)
RDrop(r, k) ==
    IF k <= 0 \/ r = <<>> THEN r
    ELSE IF r[1].n <= k THEN RDrop(Tail(r), k - r[1].n)
    ELSE <<[n |-> r[1].n - k, b |-> r[1].b]>> \o Tail(r)

\* The encoding of a sequence of bytes.
RECURSIVE FromSeq(_)
FromSeq(s) ==
    IF s = <<>> THEN <<>> ELSE RCat(RFill(1, Head(s)), FromSeq(Tail(s)))

\* ------------------------------------------------------------------------
\* chat_message
\* ------------------------------------------------------------------------
\* chat_message(): body_length_(0).  data_ is not initialised: the header
\* bytes are written (by a read or by encode_header) before any code reads
\* them, which the placeholder NUL bytes stand for; no body byte is written.
NewMessage ==
    [header |-> Fill(header_length, "NUL"), body |-> <<>>, body_length |-> 0]

\* length(): header_length + body_length_.
length(m) == header_length + m.body_length

\* body()[0 .. body_length()-1].
body_bytes(m) == RTake(m.body, m.body_length)

\* data()[0 .. length()-1]: what buffer(data(), length()) hands to a write.
frame(m) == RCat(FromSeq(m.header), body_bytes(m))

\* body_length(new_length): the length is cut to max_body_length.
set_body_length_no_trunc(m, new_length) ==
    [m EXCEPT !.body_length = new_length]

set_body_length(m, new_length) ==
    [m EXCEPT !.body_length =
        IF new_length > max_body_length THEN max_body_length ELSE new_length]

\* Storing the bytes `bytes` at body(): std::memcpy(msg.body(), line, n) and
\* the async_read into buffer(body(), n).  The bytes behind them stay.
write_body(m, bytes) ==
    [m EXCEPT !.body = RCat(bytes, RDrop(m.body, RLen(bytes)))]

\* std::strncat(header, data_, header_length) into an empty string: the
\* bytes of data_ up to the first NUL, at most header_length of them.
RECURSIVE CStrLen(_, _)
CStrLen(bytes, i) ==
    IF i > Len(bytes) \/ i > header_length \/ bytes[i] = "NUL" THEN i - 1
    ELSE CStrLen(bytes, i + 1)

strncat_header(bytes) == SubSeq(bytes, 1, CStrLen(bytes, 1))

\* std::atoi: skip white space, take an optional sign, then the digits up to
\* the first byte that is not a digit; no digits gives 0.
RECURSIVE SkipSpace(_, _)
SkipSpace(s, i) ==
    IF i <= Len(s) /\ IsSpace(s[i]) THEN SkipSpace(s, i + 1) ELSE i

RECURSIVE ParseDigits(_, _, _)
ParseDigits(s, i, acc) ==
    IF i <= Len(s) /\ IsDigit(s[i])
    THEN ParseDigits(s, i + 1, 10 * acc + DigitVal(s[i]))
    ELSE acc

atoi(s) ==
    LET i == SkipSpace(s, 1)
        signed == i <= Len(s) /\ s[i] \in {"+", "-"}
        j == IF signed THEN i + 1 ELSE i
        v == ParseDigits(s, j, 0)
    IN IF signed /\ s[i] = "-" THEN -v ELSE v

\* body_length_ > max_body_length, where body_length_ is the std::size_t
\* that the int v converts to: a negative v converts to 2^64 + v, which is
\* above every bound used here.
SizeTExceeds_signed(v, bound) == v > bound

SizeTExceeds(v, bound) == v < 0 \/ v > bound

\* decode_header(): the message after the call and the value returned.
decode_header_no_reset(m) ==
    LET v == atoi(strncat_header(m.header))
    IN [msg |-> [m EXCEPT !.body_length = v],
        ok |-> ~SizeTExceeds(v, max_body_length)]

decode_header_unchecked(m) ==
    [msg |-> [m EXCEPT !.body_length = atoi(strncat_header(m.header))],
     ok |-> TRUE]

decode_header_lenient(m) ==
    LET v == atoi(strncat_header(m.header))
    IN [msg |-> [m EXCEPT !.body_length =
                    IF SizeTExceeds(v, max_body_length) THEN 0 ELSE v],
        ok |-> TRUE]

decode_header(m) ==
    LET v == atoi(strncat_header(m.header))
    IN IF SizeTExceeds(v, max_body_length)
       THEN [msg |-> [m EXCEPT !.body_length = 0], ok |-> FALSE]
       ELSE [msg |-> [m EXCEPT !.body_length = v], ok |-> TRUE]

\* std::sprintf(header, "%4d", n) for n >= 0: the decimal digits of n, padded
\* with spaces on the left to a width of at least 4.
RECURSIVE DecStr(_)
DecStr(n) ==
    IF n < 10 THEN <<DigitChars[n + 1]>>
    ELSE DecStr(n \div 10) \o <<DigitChars[(n % 10) + 1]>>

Fmt4d(n) ==
    LET d == DecStr(n)
    IN IF Len(d) >= 4 THEN d ELSE Fill(4 - Len(d), " ") \o d

\* encode_header(): sprintf into header[5], then memcpy of header_length
\* bytes into data_.
encode_header(m) ==
    [m EXCEPT !.header = SubSeq(Fmt4d(m.body_length), 1, header_length)]

\* ------------------------------------------------------------------------
\* State
\* ------------------------------------------------------------------------
VARIABLES
    \* chat_room
    participants_,   \* std::set<chat_participant_ptr>
    recent_msgs_,    \* chat_message_queue
    \* chat_session, one per accepted connection
    life,            \* "unborn", "live" (some shared_ptr holds it), "destroyed"
    read_msg_,       \* chat_message
    write_msgs_,     \* chat_message_queue
    rd,              \* the async_read outstanding: "none", "header", "body"
    wr,              \* TRUE while an async_write is outstanding
    \* chat_server
    accepting,       \* TRUE while an async_accept is outstanding
    \* history variables (not program state)
    delivered,       \* every argument of chat_room::deliver, in call order
    enq,             \* per session: every argument of chat_session::deliver
    wire,            \* per session: every buffer handed to async_write
    joinIdx,         \* per session: Len(delivered) when it joined
    joinHist,        \* per session: recent_msgs_ when it joined
    leftIdx,         \* per session: Len(delivered) when it left, -1 before
    errored,         \* sessions one of whose handlers took its error branch
    delivers,        \* calls of chat_room::deliver in this run
    writes,          \* per session: writes completed without error
    acceptErrors,    \* accepts that completed with an error
    writeFailed,     \* sessions one of whose writes completed with an error
    \* one chat_message driven through the codec (body_length, encode_header,
    \* decode_header)
    cm,              \* the chat_message
    cpc,             \* "idle"; "new", "sized", "filled", "encoded", "decoded";
                     \* "wire", "parsed"
    creq,            \* the new_length asked of body_length(new_length)
    csrc,            \* the bytes memcpy copies the body from
    cenc,            \* the message as encode_header() left it
    cok,             \* what decode_header() returned
    \* the client's main thread
    c_main,          \* "idle", "loop" (at std::cin.getline), "join", "done"
    c_stdin,         \* the lines of standard input not yet extracted
    line,            \* char line[max_body_length + 1]
    \* the client's io_context and the thread t that runs it
    c_posted,        \* handlers posted by write() and close(), oldest first
    c_run,           \* "idle", "running", "returned" (io_context.run() is over)
    \* chat_client
    c_socket_,       \* "connecting", "open", "failed", "closed"
    c_conn,          \* TRUE while the async_connect is outstanding
    c_rd,            \* the async_read outstanding: "none", "header", "body"
    c_rd_ok,         \* that read can still complete without error
    c_wr,            \* TRUE while an async_write is outstanding
    c_wr_ok,         \* that write can still complete without error
    c_read_msg_,     \* chat_message
    c_write_msgs_,   \* chat_message_queue
    \* history variables of the client (not program state)
    c_input,         \* standard input as it was when main started
    c_sent,          \* every argument of chat_client::write, in call order
    c_wire,          \* every buffer handed to async_write
    c_out,           \* what was written to std::cout, one entry per line
    c_writes,        \* writes completed without error
    c_wrFailed       \* TRUE once a write has completed with an error

srvVars == <<participants_, recent_msgs_, life, read_msg_, write_msgs_, rd, wr,
             accepting, delivered, enq, wire, joinIdx, joinHist, leftIdx,
             errored, delivers, writes, acceptErrors, writeFailed>>

codecVars == <<cm, cpc, creq, csrc, cenc, cok>>

cliVars == <<c_main, c_stdin, line, c_posted, c_run, c_socket_, c_conn, c_rd,
             c_rd_ok, c_wr, c_wr_ok, c_read_msg_, c_write_msgs_, c_input,
             c_sent, c_wire, c_out, c_writes, c_wrFailed>>

vars == <<srvVars, codecVars, cliVars>>

Sessions == 1..NumSessions

\* What a client may put on the wire as a header.
H512 == <<" ", "5", "1", "2">>
H513 == <<" ", "5", "1", "3">>
HJunk == <<"h", "i", "NUL", "9">>
WireHeaders == {H512, H513, HJunk}

\* The bytes a body read of n bytes may store.
BodyBytes == {"a"}
WireBodies(n) == {RFill(n, b) : b \in BodyBytes}

\* ------------------------------------------------------------------------
\* chat_room
\* ------------------------------------------------------------------------
\* participants_.insert(participant)
room_insert_only(P, s) == {s}

room_insert(P, s) == P \cup {s}

\* leave(): participants_.erase(participant)
room_leave_noop(P, s) == P

room_leave_all(P, s) == {}

room_leave_some(P, s) ==
    IF s \in P \/ P = {} THEN P \ {s} ELSE P \ {CHOOSE t \in P : TRUE}

room_leave(P, s) == P \ {s}

\* recent_msgs_.push_back(msg); while (size > max_recent_msgs) pop_front();
RECURSIVE trim_recent(_)
trim_recent(h) ==
    IF Len(h) > max_recent_msgs THEN trim_recent(Tail(h)) ELSE h

push_recent_early(h, msg) ==
    IF Len(h) + 1 >= max_recent_msgs
    THEN SubSeq(Append(h, msg), Len(h) + 3 - max_recent_msgs, Len(h) + 1)
    ELSE Append(h, msg)

push_recent_front(h, msg) == trim_recent(<<msg>> \o h)

push_recent(h, msg) == trim_recent(Append(h, msg))

\* for (auto& participant: participants_): the sessions deliver() reaches.
fanout_skip_one(P) == IF P = {} THEN {} ELSE P \ {CHOOSE s \in P : TRUE}

fanout_targets(P) == P

\* ------------------------------------------------------------------------
\* chat_session
\* ------------------------------------------------------------------------
\* deliver(): write_in_progress = !write_msgs_.empty(); push_back(msg);
\* if (!write_in_progress) do_write().  The queue after the call, and
\* whether the call started a write.
session_push_front(q, msg) == <<msg>> \o q

session_push(q, msg) == Append(q, msg)

session_starts_always(q) == TRUE

session_starts_when_busy(q) == q # <<>>

session_starts_write(q) == q = <<>>

\* do_write(): the buffer handed to async_write.
write_buffer_back(q) == frame(q[Len(q)])

write_buffer(q) == frame(Head(q))

\* One call of deliver(msg) on a session whose queue is st.q, whose write
\* flag is st.w, whose writes so far are st.out and whose deliveries so far
\* are st.got.
deliver_one(st, msg) ==
    LET start == session_starts_write(st.q)
        q1 == session_push(st.q, msg)
    IN [q |-> q1,
        w |-> IF start THEN TRUE ELSE st.w,
        out |-> IF start THEN Append(st.out, write_buffer(q1)) ELSE st.out,
        got |-> Append(st.got, msg)]

\* deliver() called for each message of msgs in turn.  The sequence is
\* split in halves, and the state between the halves is computed before the
\* second half is entered, only to keep TLC's evaluation shallow.
RECURSIVE deliver_all(_, _)
deliver_all(st, msgs) ==
    IF msgs = <<>> THEN st
    ELSE IF Len(msgs) = 1 THEN deliver_one(st, msgs[1])
    ELSE LET h == Len(msgs) \div 2
             mid == deliver_all(st, SubSeq(msgs, 1, h))
         IN IF mid.w \in BOOLEAN
            THEN deliver_all(mid, SubSeq(msgs, h + 1, Len(msgs)))
            ELSE mid

\* The session state deliver() works on, and the one it leaves, for session t.
SessionIO(t) == [q |-> write_msgs_[t], w |-> wr[t], out |-> wire[t], got |-> enq[t]]

\* A session object lives while a shared_ptr to it exists: the room's set
\* holds one, and so does the handler of every outstanding read and write.
life_after_leave(old, member, reading, writing) ==
    IF old = "live" /\ ~member THEN "destroyed" ELSE old

life_after(old, member, reading, writing) ==
    IF old = "live" /\ ~member /\ reading = "none" /\ ~writing
    THEN "destroyed" ELSE old

\* chat_room::deliver(msg) as a whole: the history and the fan-out.
RoomDeliver(msg) ==
    LET io == [t \in Sessions |->
                 IF t \in fanout_targets(participants_)
                 THEN deliver_all(SessionIO(t), <<msg>>)
                 ELSE SessionIO(t)]
    IN /\ recent_msgs_' = push_recent(recent_msgs_, msg)
       /\ write_msgs_' = [t \in Sessions |-> io[t].q]
       /\ wr' = [t \in Sessions |-> io[t].w]
       /\ wire' = [t \in Sessions |-> io[t].out]
       /\ enq' = [t \in Sessions |-> io[t].got]
       /\ delivered' = Append(delivered, msg)
       /\ delivers' = delivers + 1

\* room_.leave(shared_from_this()) in a handler's error branch.
Leave(s) ==
    /\ participants_' = room_leave(participants_, s)
    /\ leftIdx' = [leftIdx EXCEPT ![s] =
                     IF s \in participants_ THEN Len(delivered) ELSE @]
    /\ errored' = errored \cup {s}

\* ------------------------------------------------------------------------
\* Handlers of the server
\* ------------------------------------------------------------------------
\* The end of a handler of session s that leaves it with read message rm
\* and queue q: the handler's shared_ptr goes, and with the last one the
\* session and its members (a destroyed session's members are kept as a new
\* session's are).
Settle(s, member, reading, writing, rm, q) ==
    LET l == life_after(life[s], member, reading, writing)
    IN /\ life' = [life EXCEPT ![s] = l]
       /\ read_msg_' = [read_msg_ EXCEPT ![s] =
                          IF l = "destroyed" THEN NewMessage ELSE rm]
       /\ write_msgs_' = [write_msgs_ EXCEPT ![s] =
                            IF l = "destroyed" THEN <<>> ELSE q]

\* do_accept's handler with !ec: make_shared<chat_session>(...)->start(),
\* that is room_.join(self) (insert, then deliver every recent message to
\* the newcomer) and do_read_header(); then do_accept() again.
AcceptOK(s) ==
    /\ accepting
    /\ life[s] = "unborn"
    /\ \A t \in Sessions : t < s => life[t] # "unborn"
    /\ LET io == deliver_all(SessionIO(s), recent_msgs_)
       IN /\ participants_' = room_insert(participants_, s)
          /\ write_msgs_' = [write_msgs_ EXCEPT ![s] = io.q]
          /\ wr' = [wr EXCEPT ![s] = io.w]
          /\ wire' = [wire EXCEPT ![s] = io.out]
          /\ enq' = [enq EXCEPT ![s] = io.got]
    /\ joinIdx' = [joinIdx EXCEPT ![s] = Len(delivered)]
    /\ joinHist' = [joinHist EXCEPT ![s] = recent_msgs_]
    /\ rd' = [rd EXCEPT ![s] = "header"]
    /\ life' = [life EXCEPT ![s] = "live"]
    /\ accepting' = TRUE
    /\ UNCHANGED <<recent_msgs_, read_msg_, delivered, leftIdx, errored,
                   acceptErrors, writeFailed, delivers, writes>>

\* do_accept's handler with ec: only do_accept() again.
AcceptError ==
    /\ accepting
    /\ acceptErrors < MaxAcceptErrors
    /\ acceptErrors' = acceptErrors + 1
    /\ accepting' = TRUE
    /\ UNCHANGED <<participants_, recent_msgs_, life, read_msg_, write_msgs_,
                   rd, wr, delivered, enq, wire, joinIdx, joinHist, leftIdx,
                   errored, delivers, writes, writeFailed>>

\* do_read_header's handler with !ec: the 4 bytes h are in data_;
\* decode_header() decides between do_read_body() and room_.leave().
ReadHeaderOK(s, h) ==
    /\ rd[s] = "header"
    /\ LET dec == decode_header([read_msg_[s] EXCEPT !.header = h])
       IN IF dec.ok
          THEN /\ rd' = [rd EXCEPT ![s] = "body"]
               /\ read_msg_' = [read_msg_ EXCEPT ![s] = dec.msg]
               /\ UNCHANGED <<participants_, leftIdx, errored, life,
                              write_msgs_>>
          ELSE /\ rd' = [rd EXCEPT ![s] = "none"]
               /\ Leave(s)
               /\ Settle(s, s \in participants_', "none", wr[s], dec.msg,
                         write_msgs_[s])
    /\ UNCHANGED <<recent_msgs_, wr, accepting, delivered, enq, wire, joinIdx,
                   joinHist, acceptErrors, writeFailed, delivers, writes>>

\* do_read_header's handler with ec.
ReadHeaderError(s) ==
    /\ rd[s] = "header"
    /\ rd' = [rd EXCEPT ![s] = "none"]
    /\ Leave(s)
    /\ Settle(s, s \in participants_', "none", wr[s], read_msg_[s],
              write_msgs_[s])
    /\ UNCHANGED <<recent_msgs_, wr, accepting, delivered, enq, wire, joinIdx,
                   joinHist, acceptErrors, writeFailed, delivers, writes>>

\* do_read_body's handler with !ec: body_length() bytes are at body();
\* room_.deliver(read_msg_), then do_read_header().
ReadBodyOK(s, bytes) ==
    /\ rd[s] = "body"
    /\ delivers < MaxDelivers
    /\ RLen(bytes) = read_msg_[s].body_length
    /\ LET msg == write_body(read_msg_[s], bytes)
       IN /\ read_msg_' = [read_msg_ EXCEPT ![s] = msg]
          /\ RoomDeliver(msg)
    /\ rd' = [rd EXCEPT ![s] = "header"]
    /\ UNCHANGED <<participants_, life, accepting, joinIdx, joinHist, leftIdx,
                   errored, acceptErrors, writeFailed, writes>>

\* do_read_body's handler with ec.
ReadBodyError(s) ==
    /\ rd[s] = "body"
    /\ rd' = [rd EXCEPT ![s] = "none"]
    /\ Leave(s)
    /\ Settle(s, s \in participants_', "none", wr[s], read_msg_[s],
              write_msgs_[s])
    /\ UNCHANGED <<recent_msgs_, wr, accepting, delivered, enq, wire, joinIdx,
                   joinHist, acceptErrors, writeFailed, delivers, writes>>

\* do_write's handler with !ec: pop_front(); do_write() if messages remain.
WriteOK(s) ==
    /\ wr[s]
    /\ writes[s] < MaxWrites
    /\ writes' = [writes EXCEPT ![s] = @ + 1]
    /\ LET q1 == Tail(write_msgs_[s])
           again == q1 # <<>>
       IN /\ wire' = [wire EXCEPT ![s] =
                        IF again THEN Append(@, write_buffer(q1)) ELSE @]
          /\ wr' = [wr EXCEPT ![s] = again]
          /\ Settle(s, s \in participants_, rd[s], again, read_msg_[s], q1)
    /\ UNCHANGED <<participants_, recent_msgs_, rd, accepting, delivered, enq,
                   joinIdx, joinHist, leftIdx, errored, acceptErrors,
                   writeFailed, delivers>>

\* do_write's handler with ec.
WriteError(s) ==
    /\ wr[s]
    /\ wr' = [wr EXCEPT ![s] = FALSE]
    /\ writeFailed' = writeFailed \cup {s}
    /\ Leave(s)
    /\ Settle(s, s \in participants_', rd[s], FALSE, read_msg_[s],
              write_msgs_[s])
    /\ UNCHANGED <<recent_msgs_, rd, accepting, delivered, enq, wire, joinIdx,
                   joinHist, acceptErrors, delivers, writes>>

\* ------------------------------------------------------------------------
\* The server: chat_server's constructor has called do_accept().
\* ------------------------------------------------------------------------
\* No codec run is under way.
CodecIdle ==
    /\ cm = NewMessage
    /\ cpc = "idle"
    /\ creq = 0
    /\ csrc = <<>>
    /\ cenc = NewMessage
    /\ cok = FALSE

\* No client is running.
ClientIdle ==
    /\ c_main = "idle"
    /\ c_stdin = <<>>
    /\ line = <<>>
    /\ c_posted = <<>>
    /\ c_run = "idle"
    /\ c_socket_ = "closed"
    /\ c_conn = FALSE
    /\ c_rd = "none"
    /\ c_rd_ok = FALSE
    /\ c_wr = FALSE
    /\ c_wr_ok = FALSE
    /\ c_read_msg_ = NewMessage
    /\ c_write_msgs_ = <<>>
    /\ c_input = <<>>
    /\ c_sent = <<>>
    /\ c_wire = <<>>
    /\ c_out = <<>>
    /\ c_writes = 0
    /\ c_wrFailed = FALSE

\* A step of the server leaves everything else alone.
ServerStep == UNCHANGED <<codecVars, cliVars>>

Init ==
    /\ CodecIdle
    /\ ClientIdle
    /\ participants_ = {}
    /\ recent_msgs_ = <<>>
    /\ life = [s \in Sessions |-> "unborn"]
    /\ read_msg_ = [s \in Sessions |-> NewMessage]
    /\ write_msgs_ = [s \in Sessions |-> <<>>]
    /\ rd = [s \in Sessions |-> "none"]
    /\ wr = [s \in Sessions |-> FALSE]
    /\ accepting = TRUE
    /\ delivered = <<>>
    /\ enq = [s \in Sessions |-> <<>>]
    /\ wire = [s \in Sessions |-> <<>>]
    /\ joinIdx = [s \in Sessions |-> 0]
    /\ joinHist = [s \in Sessions |-> <<>>]
    /\ leftIdx = [s \in Sessions |-> -1]
    /\ errored = {}
    /\ delivers = 0
    /\ writes = [s \in Sessions |-> 0]
    /\ acceptErrors = 0
    /\ writeFailed = {}

Next ==
    \/ \E s \in Sessions : AcceptOK(s) /\ ServerStep
    \/ AcceptError /\ ServerStep
    \/ \E s \in Sessions, h \in WireHeaders :
         ReadHeaderOK(s, h) /\ ServerStep
    \/ \E s \in Sessions : ReadHeaderError(s) /\ ServerStep
    \/ \E s \in Sessions :
         \E bytes \in WireBodies(read_msg_[s].body_length) :
           ReadBodyOK(s, bytes) /\ ServerStep
    \/ \E s \in Sessions : ReadBodyError(s) /\ ServerStep
    \/ \E s \in Sessions : WriteOK(s) /\ ServerStep
    \/ \E s \in Sessions : WriteError(s) /\ ServerStep

Spec == Init /\ [][Next]_vars

\* The server when every write that stays outstanding completes: the
\* handler of an async_write that the transport can finish is run by
\* io_context.run().  The run makes at most MaxLiveDelivers calls of
\* chat_room::deliver.
WritesComplete == \A s \in Sessions : WF_vars(WriteOK(s) /\ ServerStep)

NextLive ==
    \/ \E s \in Sessions : AcceptOK(s) /\ ServerStep
    \/ AcceptError /\ ServerStep
    \/ \E s \in Sessions, h \in WireHeaders :
         ReadHeaderOK(s, h) /\ ServerStep
    \/ \E s \in Sessions : ReadHeaderError(s) /\ ServerStep
    \/ \E s \in Sessions :
         \E bytes \in WireBodies(read_msg_[s].body_length) :
           delivers < MaxLiveDelivers /\ ReadBodyOK(s, bytes) /\ ServerStep
    \/ \E s \in Sessions : ReadBodyError(s) /\ ServerStep
    \/ \E s \in Sessions : WriteOK(s) /\ ServerStep
    \/ \E s \in Sessions : WriteError(s) /\ ServerStep

SpecLive == Init /\ [][NextLive]_vars /\ WritesComplete

\* ------------------------------------------------------------------------
\* The room after PreFill delivers: the sessions that made them have left
\* and are destroyed, the history holds their messages.  The peers of the
\* sessions of this run do not take their output: no write completes.  (No
\* write handler reads or writes recent_msgs_, and the read handlers, which
\* call chat_room::deliver, do not depend on the writes.)
\* ------------------------------------------------------------------------
PreMsgA == [header |-> HJunk, body |-> <<>>, body_length |-> 0]
PreMsgB == [header |-> H512, body |-> RFill(max_body_length, "a"),
            body_length |-> max_body_length]
PreHistory == [i \in 1..PreFill |-> IF i % 2 = 1 THEN PreMsgA ELSE PreMsgB]

InitHist ==
    /\ CodecIdle
    /\ ClientIdle
    /\ participants_ = {}
    /\ recent_msgs_ = PreHistory
    /\ life = [s \in Sessions |-> "unborn"]
    /\ read_msg_ = [s \in Sessions |-> NewMessage]
    /\ write_msgs_ = [s \in Sessions |-> <<>>]
    /\ rd = [s \in Sessions |-> "none"]
    /\ wr = [s \in Sessions |-> FALSE]
    /\ accepting = TRUE
    /\ delivered = PreHistory
    /\ enq = [s \in Sessions |-> <<>>]
    /\ wire = [s \in Sessions |-> <<>>]
    /\ joinIdx = [s \in Sessions |-> 0]
    /\ joinHist = [s \in Sessions |-> <<>>]
    /\ leftIdx = [s \in Sessions |-> -1]
    /\ errored = {}
    /\ delivers = 0
    /\ writes = [s \in Sessions |-> 0]
    /\ acceptErrors = 0
    /\ writeFailed = {}

NextHist ==
    \/ \E s \in Sessions : AcceptOK(s) /\ ServerStep
    \/ \E s \in Sessions, h \in WireHeaders :
         ReadHeaderOK(s, h) /\ ServerStep
    \/ \E s \in Sessions : ReadHeaderError(s) /\ ServerStep
    \/ \E s \in Sessions :
         \E bytes \in WireBodies(read_msg_[s].body_length) :
           ReadBodyOK(s, bytes) /\ ServerStep
    \/ \E s \in Sessions : ReadBodyError(s) /\ ServerStep

SpecHist == InitHist /\ [][NextHist]_vars

\* ------------------------------------------------------------------------
\* The codec on its own: a message is given a length, a body and a header
\* as the client's main does (body_length(n); memcpy; encode_header()) and
\* the header is decoded as a receiver does; or 4 bytes come off the wire
\* and are decoded.
\* ------------------------------------------------------------------------
\* The bytes a header off the wire is made of.
HeaderAlphabet == {" ", "-", "+", "0", "1", "2", "5", "9", "x", "NUL"}

RawHeaders == [1..header_length -> HeaderAlphabet]

\* The source of a body of n bytes.
SourceBytes(n) ==
    {RTake(x, n) : x \in {RFill(n, "a"), RCat(RFill(1, "b"), RFill(n - 1, "a"))}}

\* The server after a run keeps its state while the codec runs.
ServerIdle ==
    /\ participants_ = {}
    /\ recent_msgs_ = <<>>
    /\ life = [s \in Sessions |-> "unborn"]
    /\ read_msg_ = [s \in Sessions |-> NewMessage]
    /\ write_msgs_ = [s \in Sessions |-> <<>>]
    /\ rd = [s \in Sessions |-> "none"]
    /\ wr = [s \in Sessions |-> FALSE]
    /\ accepting = FALSE
    /\ delivered = <<>>
    /\ enq = [s \in Sessions |-> <<>>]
    /\ wire = [s \in Sessions |-> <<>>]
    /\ joinIdx = [s \in Sessions |-> 0]
    /\ joinHist = [s \in Sessions |-> <<>>]
    /\ leftIdx = [s \in Sessions |-> -1]
    /\ errored = {}
    /\ delivers = 0
    /\ writes = [s \in Sessions |-> 0]
    /\ acceptErrors = 0
    /\ writeFailed = {}

CodecStep == UNCHANGED <<srvVars, cliVars>>

\* chat_message msg; msg.body_length(creq);
CodecSetLength ==
    /\ cpc = "new"
    /\ cm' = set_body_length(cm, creq)
    /\ cpc' = "sized"
    /\ UNCHANGED <<creq, csrc, cenc, cok>>

\* std::memcpy(msg.body(), line, msg.body_length());
CodecCopyBody ==
    /\ cpc = "sized"
    /\ cm' = write_body(cm, RTake(csrc, cm.body_length))
    /\ cpc' = "filled"
    /\ UNCHANGED <<creq, csrc, cenc, cok>>

\* msg.encode_header();
CodecEncode ==
    /\ cpc = "filled"
    /\ cm' = encode_header(cm)
    /\ cenc' = cm'
    /\ cpc' = "encoded"
    /\ UNCHANGED <<creq, csrc, cok>>

\* decode_header() on the message just encoded, or on 4 bytes off the wire.
CodecDecode ==
    /\ cpc \in {"encoded", "wire"}
    /\ LET dec == decode_header(cm)
       IN /\ cm' = dec.msg
          /\ cok' = dec.ok
    /\ cpc' = IF cpc = "encoded" THEN "decoded" ELSE "parsed"
    /\ UNCHANGED <<creq, csrc, cenc>>

InitCodec ==
    /\ ServerIdle
    /\ ClientIdle
    /\ cok = FALSE
    /\ \/ /\ cpc = "new"
          /\ cm = NewMessage
          /\ cenc = NewMessage
          /\ creq \in 0..MaxReqLen
          /\ csrc \in SourceBytes(creq)
       \/ /\ cpc = "wire"
          /\ \E h \in RawHeaders :
                /\ cm = [NewMessage EXCEPT !.header = h]
                /\ cenc = cm
          /\ creq = 0
          /\ csrc = <<>>

NextCodec ==
    \/ CodecSetLength /\ CodecStep
    \/ CodecCopyBody /\ CodecStep
    \/ CodecEncode /\ CodecStep
    \/ CodecDecode /\ CodecStep

SpecCodec == InitCodec /\ [][NextCodec]_vars

\* ------------------------------------------------------------------------
\* The client: main has constructed chat_client (whose constructor called
\* do_connect()) and started the thread t that runs io_context.run(); it is
\* about to enter its loop over standard input.
\* ------------------------------------------------------------------------
\* The lines standard input may hold, each ended by a newline.
LineLengths == {0, 1, max_body_length, max_body_length + 1}

InputLines == {RFill(n, "a") : n \in LineLengths} \cup {RFill(1, "b")}

Inputs == UNION {[1..n -> InputLines] : n \in 0..MaxLines}

\* std::cin.getline(line, count) on a good stream: characters are moved to
\* line until end of input, or the next one is the newline (which is taken
\* and dropped), or count - 1 have been stored (which sets failbit); taking
\* no character at all sets failbit too.  A NUL byte is stored behind them.
\* ok is the stream's state after the call, as the while condition sees it.
getline(in, count) ==
    IF in = <<>>
    THEN [buf |-> RFill(1, "NUL"), rest |-> <<>>, ok |-> FALSE]
    ELSE IF RLen(Head(in)) <= count - 1
    THEN [buf |-> RCat(Head(in), RFill(1, "NUL")), rest |-> Tail(in),
          ok |-> TRUE]
    ELSE [buf |-> RCat(RTake(Head(in), count - 1), RFill(1, "NUL")),
          rest |-> <<RDrop(Head(in), count - 1)>> \o Tail(in),
          ok |-> FALSE]

\* std::strlen: the bytes before the first NUL.
RECURSIVE strlen(_)
strlen(r) ==
    IF r = <<>> \/ r[1].b = "NUL" THEN 0 ELSE r[1].n + strlen(Tail(r))

\* The loop body: chat_message msg; msg.body_length(std::strlen(line));
\* std::memcpy(msg.body(), line, msg.body_length()); msg.encode_header();
line_message(buf) ==
    LET sized == set_body_length(NewMessage, strlen(buf))
    IN encode_header(write_body(sized, RTake(buf, sized.body_length)))

\* The handlers chat_client::write and chat_client::close post.
posted_write(msg) == [op |-> "write", msg |-> msg]

posted_close == [op |-> "close", msg |-> NewMessage]

\* Whether an operation started on the socket now can complete without
\* error.
socket_usable(sock) == sock \in {"connecting", "open"}

\* One turn of the loop: getline succeeds, the line is sent with c.write.
MainSend ==
    /\ c_main = "loop"
    /\ LET g == getline(c_stdin, max_body_length + 1)
       IN /\ g.ok
          /\ line' = g.buf
          /\ c_stdin' = g.rest
          /\ c_posted' = Append(c_posted, posted_write(line_message(g.buf)))
          /\ c_sent' = Append(c_sent, line_message(g.buf))
    /\ UNCHANGED <<c_main, c_run, c_socket_, c_conn, c_rd, c_rd_ok, c_wr,
                   c_wr_ok, c_read_msg_, c_write_msgs_,
                   c_input, c_writes, c_wrFailed, c_wire,
                   c_out>>

\* getline leaves the stream failed: the loop is over, c.close() is called
\* and main goes to t.join().
MainClose ==
    /\ c_main = "loop"
    /\ LET g == getline(c_stdin, max_body_length + 1)
       IN /\ ~g.ok
          /\ line' = g.buf
          /\ c_stdin' = g.rest
    /\ c_posted' = Append(c_posted, posted_close)
    /\ c_main' = "join"
    /\ UNCHANGED <<c_run, c_socket_, c_conn, c_rd, c_rd_ok, c_wr, c_wr_ok,
                   c_read_msg_, c_write_msgs_,
                   c_input, c_writes, c_wrFailed, c_sent, c_wire,
                   c_out>>

\* t.join() returns once io_context.run() has.
MainJoin ==
    /\ c_main = "join"
    /\ c_run = "returned"
    /\ c_main' = "done"
    /\ UNCHANGED <<c_stdin, line, c_posted, c_run, c_socket_, c_conn, c_rd,
                   c_rd_ok, c_wr, c_wr_ok, c_read_msg_, c_write_msgs_,
                   c_input, c_writes, c_wrFailed, c_sent, c_wire, c_out>>

\* do_connect's handler with !ec: do_read_header().
IoConnectOK ==
    /\ c_run = "running"
    /\ c_conn
    /\ c_conn' = FALSE
    /\ c_socket_' = IF c_socket_ = "closed" THEN "closed" ELSE "open"
    /\ c_rd' = "header"
    /\ c_rd_ok' = socket_usable(c_socket_')
    /\ UNCHANGED <<c_main, c_stdin, line, c_posted, c_run, c_wr, c_wr_ok,
                   c_read_msg_, c_write_msgs_,
                   c_input, c_writes, c_wrFailed, c_sent, c_wire,
                   c_out>>

\* do_connect's handler with ec: nothing is started.
IoConnectError ==
    /\ c_run = "running"
    /\ c_conn
    /\ c_conn' = FALSE
    /\ c_socket_' = IF c_socket_ = "closed" THEN "closed" ELSE "failed"
    /\ c_wr_ok' = FALSE
    /\ UNCHANGED <<c_main, c_stdin, line, c_posted, c_run, c_rd, c_rd_ok,
                   c_wr, c_read_msg_, c_write_msgs_,
                   c_input, c_writes, c_wrFailed, c_sent, c_wire,
                   c_out>>

\* The handler write() posted: write_in_progress = !write_msgs_.empty();
\* push_back(msg); if (!write_in_progress) do_write().
IoPostedWrite ==
    /\ c_run = "running"
    /\ c_posted # <<>>
    /\ Head(c_posted).op = "write"
    /\ c_posted' = Tail(c_posted)
    /\ LET start == session_starts_write(c_write_msgs_)
           q1 == session_push(c_write_msgs_, Head(c_posted).msg)
       IN /\ c_write_msgs_' = q1
          /\ c_wr' = IF start THEN TRUE ELSE c_wr
          /\ c_wr_ok' = IF start THEN socket_usable(c_socket_) ELSE c_wr_ok
          /\ c_wire' = IF start THEN Append(c_wire, write_buffer(q1))
                       ELSE c_wire
    /\ UNCHANGED <<c_main, c_stdin, line, c_run, c_socket_, c_conn, c_rd,
                   c_rd_ok, c_read_msg_,
                   c_input, c_writes, c_wrFailed, c_sent, c_out>>

\* The handler close() posted: socket_.close().  A write that waits for the
\* connection cannot complete any more.
IoPostedClose ==
    /\ c_run = "running"
    /\ c_posted # <<>>
    /\ Head(c_posted).op = "close"
    /\ c_posted' = Tail(c_posted)
    /\ c_socket_' = "closed"
    /\ c_wr_ok' = IF c_socket_ = "connecting" THEN FALSE ELSE c_wr_ok
    /\ UNCHANGED <<c_main, c_stdin, line, c_run, c_conn, c_rd, c_rd_ok, c_wr,
                   c_read_msg_, c_write_msgs_,
                   c_input, c_writes, c_wrFailed, c_sent, c_wire,
                   c_out>>

\* do_read_header's handler with !ec: decode_header() decides between
\* do_read_body() and socket_.close().
IoReadHeaderOK(h) ==
    /\ c_run = "running"
    /\ c_rd = "header"
    /\ c_rd_ok
    /\ LET dec == decode_header([c_read_msg_ EXCEPT !.header = h])
       IN /\ c_read_msg_' = dec.msg
          /\ IF dec.ok
             THEN /\ c_rd' = "body"
                  /\ c_rd_ok' = socket_usable(c_socket_)
                  /\ UNCHANGED c_socket_
             ELSE /\ c_rd' = "none"
                  /\ c_rd_ok' = FALSE
                  /\ c_socket_' = "closed"
    /\ UNCHANGED <<c_main, c_stdin, line, c_posted, c_run, c_conn, c_wr,
                   c_wr_ok, c_write_msgs_,
                   c_input, c_writes, c_wrFailed, c_sent, c_wire, c_out>>

\* do_read_header's handler with ec: socket_.close().
IoReadHeaderError ==
    /\ c_run = "running"
    /\ c_rd = "header"
    /\ c_rd' = "none"
    /\ c_rd_ok' = FALSE
    /\ c_socket_' = "closed"
    /\ UNCHANGED <<c_main, c_stdin, line, c_posted, c_run, c_conn, c_wr,
                   c_wr_ok, c_read_msg_, c_write_msgs_,
                   c_input, c_writes, c_wrFailed, c_sent,
                   c_wire, c_out>>

\* do_read_body's handler with !ec: the body and "\n" go to std::cout, then
\* do_read_header().
IoReadBodyOK(bytes) ==
    /\ c_run = "running"
    /\ c_rd = "body"
    /\ c_rd_ok
    /\ Len(c_out) < MaxReceived
    /\ RLen(bytes) = c_read_msg_.body_length
    /\ c_read_msg_' = write_body(c_read_msg_, bytes)
    /\ c_out' = Append(c_out, body_bytes(c_read_msg_'))
    /\ c_rd' = "header"
    /\ c_rd_ok' = socket_usable(c_socket_)
    /\ UNCHANGED <<c_main, c_stdin, line, c_posted, c_run, c_socket_, c_conn,
                   c_wr, c_wr_ok, c_write_msgs_,
                   c_input, c_writes, c_wrFailed, c_sent, c_wire>>

\* do_read_body's handler with ec: socket_.close().
IoReadBodyError ==
    /\ c_run = "running"
    /\ c_rd = "body"
    /\ c_rd' = "none"
    /\ c_rd_ok' = FALSE
    /\ c_socket_' = "closed"
    /\ UNCHANGED <<c_main, c_stdin, line, c_posted, c_run, c_conn, c_wr,
                   c_wr_ok, c_read_msg_, c_write_msgs_,
                   c_input, c_writes, c_wrFailed, c_sent,
                   c_wire, c_out>>

\* do_write's handler with !ec: pop_front(); do_write() if messages remain.
IoWriteOK ==
    /\ c_run = "running"
    /\ c_wr
    /\ c_wr_ok
    /\ c_writes' = c_writes + 1
    /\ LET q1 == Tail(c_write_msgs_)
           again == q1 # <<>>
       IN /\ c_write_msgs_' = q1
          /\ c_wr' = again
          /\ c_wr_ok' = (again /\ socket_usable(c_socket_))
          /\ c_wire' = IF again THEN Append(c_wire, write_buffer(q1))
                       ELSE c_wire
    /\ UNCHANGED <<c_main, c_stdin, line, c_posted, c_run, c_socket_, c_conn,
                   c_rd, c_rd_ok, c_read_msg_,
                   c_input, c_wrFailed, c_sent, c_out>>

\* do_write's handler with ec: socket_.close().
IoWriteError ==
    /\ c_run = "running"
    /\ c_wr
    /\ c_wr' = FALSE
    /\ c_wrFailed' = TRUE
    /\ c_wr_ok' = FALSE
    /\ c_socket_' = "closed"
    /\ UNCHANGED <<c_main, c_stdin, line, c_posted, c_run, c_conn, c_rd,
                   c_rd_ok, c_read_msg_, c_write_msgs_,
                   c_input, c_writes, c_sent,
                   c_wire, c_out>>

\* io_context.run() returns when no handler is posted and no operation is
\* outstanding; what is posted afterwards is never run.
IoRunExit ==
    /\ c_run = "running"
    /\ c_posted = <<>>
    /\ ~c_conn
    /\ c_rd = "none"
    /\ ~c_wr
    /\ c_run' = "returned"
    /\ UNCHANGED <<c_main, c_stdin, line, c_posted, c_socket_, c_conn, c_rd,
                   c_rd_ok, c_wr, c_wr_ok, c_read_msg_, c_write_msgs_,
                   c_input, c_writes, c_wrFailed, c_sent, c_wire, c_out>>

ClientStep == UNCHANGED <<srvVars, codecVars>>

InitClient ==
    /\ ServerIdle
    /\ CodecIdle
    /\ c_input \in Inputs
    /\ c_stdin = c_input
    /\ c_main = "loop"
    /\ line = <<>>
    /\ c_posted = <<>>
    /\ c_run = "running"
    /\ c_socket_ = "connecting"
    /\ c_conn = TRUE
    /\ c_rd = "none"
    /\ c_rd_ok = FALSE
    /\ c_wr = FALSE
    /\ c_wr_ok = FALSE
    /\ c_read_msg_ = NewMessage
    /\ c_write_msgs_ = <<>>
    /\ c_sent = <<>>
    /\ c_wire = <<>>
    /\ c_out = <<>>
    /\ c_writes = 0
    /\ c_wrFailed = FALSE

NextClient ==
    \/ MainSend /\ ClientStep
    \/ MainClose /\ ClientStep
    \/ MainJoin /\ ClientStep
    \/ IoConnectOK /\ ClientStep
    \/ IoConnectError /\ ClientStep
    \/ IoPostedWrite /\ ClientStep
    \/ IoPostedClose /\ ClientStep
    \/ \E h \in WireHeaders : IoReadHeaderOK(h) /\ ClientStep
    \/ IoReadHeaderError /\ ClientStep
    \/ \E bytes \in WireBodies(c_read_msg_.body_length) :
         IoReadBodyOK(bytes) /\ ClientStep
    \/ IoReadBodyError /\ ClientStep
    \/ IoWriteOK /\ ClientStep
    \/ IoWriteError /\ ClientStep
    \/ IoRunExit /\ ClientStep

SpecClient == InitClient /\ [][NextClient]_vars

\* ------------------------------------------------------------------------
\* Any of the three: a run of the server, of the client, or of the codec.
\* ------------------------------------------------------------------------
InitEither == Init \/ InitClient \/ InitCodec

NextEither == Next \/ NextClient \/ NextCodec

SpecEither == InitEither /\ [][NextEither]_vars

\* ------------------------------------------------------------------------
\* Properties
\* ------------------------------------------------------------------------
Min(a, b) == IF a < b THEN a ELSE b

\* The last n elements of a sequence, and a sequence without its first n.
LastN(seq, n) == SubSeq(seq, Len(seq) - n + 1, Len(seq))

Drop(seq, n) == SubSeq(seq, n + 1, Len(seq))

\* C1: every call of chat_room::deliver(m) appends m exactly once to the
\* queue of each session that is a member at that moment (the session whose
\* body read produced m among them), and to no other session's queue.
C1_FanOutExact ==
    [][delivered' # delivered =>
         LET m == delivered'[Len(delivered')]
         IN /\ delivered' = Append(delivered, m)
            /\ \E s \in Sessions :
                 rd[s] = "body" /\ rd'[s] = "header" /\ read_msg_'[s] = m
            /\ \A t \in Sessions :
                 /\ enq'[t] = IF t \in participants_
                              THEN Append(enq[t], m) ELSE enq[t]
                 /\ write_msgs_'[t] = IF t \in participants_
                                      THEN Append(write_msgs_[t], m)
                                      ELSE write_msgs_[t]]_vars

\* Two members, one of which read the message delivered last: both have it
\* at the end of their queues.
C1_Witness ==
    \E s, t \in participants_ :
        /\ s # t
        /\ delivers >= 1
        /\ rd[s] = "header" /\ read_msg_[s] = delivered[Len(delivered)]
        /\ rd[t] = "header" /\ read_msg_[t] = NewMessage
        /\ write_msgs_[s] # <<>> /\ write_msgs_[t] # <<>>
        /\ write_msgs_[s][Len(write_msgs_[s])] = read_msg_[s]
        /\ write_msgs_[t][Len(write_msgs_[t])] = read_msg_[s]

\* C2: a session that joins a room whose history is m1..mk (k <= 100) has
\* m1..mk, in that order and once each, as the first k messages of its
\* queue, followed by exactly the messages delivered between its join and
\* its leave, in delivery order; the queue is what of this has not been
\* written yet; a session that has not joined has been given nothing.
C2_JoinReplay ==
    \A s \in Sessions :
        /\ Len(joinHist[s]) <= max_recent_msgs
        /\ enq[s] =
             IF life[s] = "unborn" THEN <<>>
             ELSE joinHist[s]
                  \o SubSeq(delivered, joinIdx[s] + 1,
                            IF leftIdx[s] >= 0 THEN leftIdx[s]
                            ELSE Len(delivered))
        /\ life[s] = "live" => write_msgs_[s] = Drop(enq[s], writes[s])

\* A member that was replayed a history and then received a later message.
C2_Witness ==
    \E s \in participants_ :
        /\ joinHist[s] # <<>>
        /\ Len(enq[s]) > Len(joinHist[s])
        /\ Len(delivered) > joinIdx[s]
        /\ enq[s][1] # enq[s][Len(enq[s])]

\* C3: after n calls of chat_room::deliver, with joins and leaves between
\* them, the history is the last min(n, 100) messages delivered, oldest
\* first, and never longer than 100.
C3_HistoryBound ==
    /\ Len(recent_msgs_) <= max_recent_msgs
    /\ recent_msgs_ = LastN(delivered, Min(Len(delivered), max_recent_msgs))

\* More than 100 delivers have been made, with a join and a leave.
C3_Witness ==
    /\ Len(delivered) > max_recent_msgs
    /\ Len(recent_msgs_) = max_recent_msgs
    /\ participants_ # {}
    /\ errored # {}

\* C4: the buffers one session hands to async_write are, in order, the
\* frames of a prefix of the messages enqueued to it: none skipped, none
\* reordered, none written twice.
C4_WriteOrder ==
    \A s \in Sessions :
        /\ Len(wire[s]) <= Len(enq[s])
        /\ \A i \in 1..Len(wire[s]) : wire[s][i] = frame(enq[s][i])

\* Three messages were enqueued before the first write completed, the last
\* two different, and the second was handed to the transport after the
\* first.
C4_Witness ==
    \E s \in Sessions :
        /\ Len(enq[s]) = 3
        /\ Len(write_msgs_[s]) = 2
        /\ enq[s][2] # enq[s][3]
        /\ Len(wire[s]) = 2
        /\ writes[s] = 1
        /\ wr[s]

\* C5: a session whose header read, body read or write completed with an
\* error, or whose header failed to decode, is not a member, and no
\* chat_room::deliver after that appends to its queue.
C5_DepartureCleanup ==
    /\ [](\A s \in errored : s \notin participants_)
    /\ [][\A s \in errored :
            /\ enq'[s] = enq[s]
            /\ Len(write_msgs_'[s]) <= Len(write_msgs_[s])]_vars

\* A session left on a write error, went on reading, and a message was
\* delivered after it left, to a member.
C5_Witness ==
    \E s \in errored : \E t \in participants_ :
        /\ leftIdx[s] >= 0
        /\ Len(delivered) > leftIdx[s]
        /\ rd[s] # "none"
        /\ Len(enq[t]) > 0

\* C6: when a session reads a header whose parsed value is above 512,
\* decode_header fails and sets the body length to 0, the session leaves the
\* room and issues no body read then or later, and nothing is added to the
\* history or to any queue.
C6_OversizedRejected ==
    [][\A s \in Sessions :
         /\ \A h \in WireHeaders :
              (ReadHeaderOK(s, h) /\ atoi(strncat_header(h)) > max_body_length)
              => LET dec == decode_header([read_msg_[s] EXCEPT !.header = h])
                 IN /\ ~dec.ok
                    /\ dec.msg.body_length = 0
                    /\ life'[s] = "live" => read_msg_'[s] = dec.msg
                    /\ s \notin participants_'
                    /\ rd'[s] = "none"
                    /\ recent_msgs_' = recent_msgs_
                    /\ delivered' = delivered
                    /\ enq' = enq
         /\ (life[s] # "unborn" /\ rd[s] = "none") => rd'[s] = "none"]_vars

\* A session that had read a 512-byte body read the header " 513": its
\* length is 0 again, it has left and it reads nothing.
C6_Witness ==
    \E s \in Sessions :
        /\ life[s] = "live"
        /\ read_msg_[s].header = H513
        /\ read_msg_[s].body_length = 0
        /\ RLen(read_msg_[s].body) = max_body_length
        /\ s \notin participants_
        /\ rd[s] = "none"
        /\ recent_msgs_ # <<>>

\* C7: for every requested length L, also above 512, body_length(L) then
\* encode_header() then decode_header() succeeds with body length
\* min(L, 512); the header encode_header() writes is 4 bytes (the decimal
\* length, right-aligned in spaces), and the body bytes are the same before
\* and after encode_header() and decode_header().
C7_RoundTrip ==
    LET L == Min(creq, max_body_length)
    IN /\ cpc \in {"sized", "filled", "encoded", "decoded"}
            => cm.body_length = L
       /\ cpc \in {"filled", "encoded", "decoded"}
            => /\ cm.body = RTake(csrc, L)
               /\ body_bytes(cm) = RTake(csrc, L)
       /\ cpc \in {"encoded", "decoded"}
            => /\ Len(cenc.header) = header_length
               /\ cenc.header = Fmt4d(L)
               /\ cenc.body_length = L
               /\ cenc.body = RTake(csrc, L)
       /\ cpc = "decoded" => cok /\ cm = cenc

\* A length above 512 was requested with a body that long, and the header
\* has been decoded.
C7_Witness ==
    /\ cpc = "decoded"
    /\ creq > max_body_length
    /\ RLen(csrc) = creq
    /\ cok
    /\ cm.body_length = max_body_length
    /\ cm.header = H512

\* C8: every message in the history or in a queue, and every message a
\* header decode has produced, has a body length in 0..512 and its body
\* bytes in place; every buffer written is at most 516 bytes, and a body
\* read asks for at most 512 bytes.
WellSized(m) ==
    /\ m.body_length \in 0..max_body_length
    /\ RLen(frame(m)) = length(m)
    /\ length(m) <= header_length + max_body_length

C8_LengthBounded ==
    /\ \A i \in 1..Len(recent_msgs_) : WellSized(recent_msgs_[i])
    /\ \A s \in Sessions :
         /\ \A i \in 1..Len(write_msgs_[s]) : WellSized(write_msgs_[s][i])
         /\ \A i \in 1..Len(wire[s]) :
              RLen(wire[s][i]) <= header_length + max_body_length
         /\ read_msg_[s].body_length \in 0..max_body_length
         /\ rd[s] = "header" => WellSized(read_msg_[s])

\* A frame of 516 bytes has been handed to a write.
C8_Witness ==
    \E s \in Sessions : \E i \in 1..Len(wire[s]) :
        /\ RLen(wire[s][i]) = header_length + max_body_length
        /\ \E j \in 1..Len(recent_msgs_) :
             recent_msgs_[j].body_length = max_body_length

\* C9: the client sends one message for every line of standard input: at
\* the end of main's loop c.write has been called once per line, in input
\* order, with the first min(n, 512) bytes of the line of n bytes as body,
\* and all of standard input has been read.
C9_EveryLineSent ==
    c_main \in {"join", "done"}
    => /\ c_stdin = <<>>
       /\ Len(c_sent) = Len(c_input)
       /\ \A i \in 1..Len(c_input) :
            /\ i <= Len(c_sent)
            /\ c_sent[i].body_length = Min(RLen(c_input[i]), max_body_length)
            /\ body_bytes(c_sent[i]) = RTake(c_input[i], max_body_length)

\* C10: an error of one session (a read or write error, a header that does
\* not decode) removes that session from the room and changes nothing else:
\* not the history, not another session's membership, queue or reads; and
\* the listener has an accept outstanding after it, and after a failed
\* accept, which changes nothing at all.
SessionErrorStep(s) ==
    \/ ReadHeaderError(s)
    \/ ReadBodyError(s)
    \/ WriteError(s)
    \/ \E h \in WireHeaders :
         /\ ReadHeaderOK(s, h)
         /\ ~decode_header([read_msg_[s] EXCEPT !.header = h]).ok

OthersUntouched(s) ==
    /\ recent_msgs_' = recent_msgs_
    /\ delivered' = delivered
    /\ participants_' = participants_ \ {s}
    /\ \A t \in Sessions \ {s} :
         /\ write_msgs_'[t] = write_msgs_[t]
         /\ read_msg_'[t] = read_msg_[t]
         /\ rd'[t] = rd[t]
         /\ wr'[t] = wr[t]
         /\ life'[t] = life[t]
         /\ enq'[t] = enq[t]
         /\ wire'[t] = wire[t]

C10_ErrorIsLocal ==
    /\ []accepting
    /\ [][/\ \A s \in Sessions : SessionErrorStep(s) => OthersUntouched(s)
          /\ AcceptError =>
               UNCHANGED <<participants_, recent_msgs_, life, read_msg_,
                           write_msgs_, rd, wr, accepting>>]_vars

\* After a failed accept and the error of one session, a session accepted
\* later is a member and has been delivered a message.
C10_Witness ==
    /\ acceptErrors >= 1
    /\ accepting
    /\ \E s \in errored : \E t \in participants_ :
         /\ leftIdx[s] >= 0
         /\ joinIdx[t] > leftIdx[s]
         /\ t > s
         /\ enq[t] # <<>>

\* C11: a session that has taken an error branch (a failed header read,
\* header decode, body read or write) starts no further read and no further
\* write, and hands no message to chat_room::deliver.
C11_ClosedStaysClosed ==
    [][\A s \in errored :
         /\ rd'[s] \in {rd[s], "none"}
         /\ wire'[s] = wire[s]
         /\ delivered' # delivered
              => ~(rd[s] = "body" /\ rd'[s] = "header")]_vars

\* C12: chat_room's deliver, join and leave take effect one at a time, each
\* as a whole: in every state the history is the tail of the sequence of
\* delivers, and any two sessions have been given the messages delivered
\* while both were members completely and in that same order.
Max(a, b) == IF a > b THEN a ELSE b

\* The number of delivers made when session s stopped being a member (so
\* far, when it still is one).
MemberUntil(s) == IF leftIdx[s] >= 0 THEN leftIdx[s] ELSE Len(delivered)

\* The message session s was given for the k-th deliver.
GivenAt(s, k) == enq[s][Len(joinHist[s]) + k - joinIdx[s]]

C12_SerialDelivery ==
    /\ Len(recent_msgs_) <= Len(delivered)
    /\ recent_msgs_ = LastN(delivered, Len(recent_msgs_))
    /\ \A s, t \in Sessions :
         (life[s] # "unborn" /\ life[t] # "unborn")
         => \A k \in (Max(joinIdx[s], joinIdx[t]) + 1)
                      .. Min(MemberUntil(s), MemberUntil(t)) :
              /\ Len(enq[s]) >= Len(joinHist[s]) + k - joinIdx[s]
              /\ Len(enq[t]) >= Len(joinHist[t]) + k - joinIdx[t]
              /\ GivenAt(s, k) = delivered[k]
              /\ GivenAt(t, k) = delivered[k]

\* Two members were both given two different messages, delivered one after
\* the other while both were members.
C12_Witness ==
    \E s, t \in participants_ :
        /\ s # t
        /\ Len(delivered) >= Max(joinIdx[s], joinIdx[t]) + 2
        /\ delivered[Len(delivered)] # delivered[Len(delivered) - 1]
        /\ enq[s][Len(enq[s])] = delivered[Len(delivered)]
        /\ enq[t][Len(enq[t]) - 1] = delivered[Len(delivered) - 1]
        /\ recent_msgs_ = delivered

\* C13: a session (chat_session, chat_client) has at most one async_write
\* outstanding; until one of its writes fails, a write is outstanding
\* exactly when its queue is not empty, the buffer being written is the
\* front of the queue, and the front is the oldest message enqueued whose
\* write has not completed.
Outstanding(started, completed, failed) ==
    started - completed - (IF failed THEN 1 ELSE 0)

C13_OneWriteOutstanding ==
    /\ \A s \in Sessions :
         LET n == Outstanding(Len(wire[s]), writes[s], s \in writeFailed)
         IN /\ n \in {0, 1}
            /\ wr[s] <=> n = 1
            /\ (life[s] = "live" /\ s \notin writeFailed)
               => /\ wr[s] <=> write_msgs_[s] # <<>>
                  /\ wr[s] => /\ wire[s][Len(wire[s])]
                                   = frame(Head(write_msgs_[s]))
                              /\ Head(write_msgs_[s]) = enq[s][writes[s] + 1]
    /\ LET n == Outstanding(Len(c_wire), c_writes, c_wrFailed)
       IN /\ n \in {0, 1}
          /\ c_wr <=> n = 1
          /\ ~c_wrFailed
             => /\ c_wr <=> c_write_msgs_ # <<>>
                /\ c_wr => c_wire[Len(c_wire)] = frame(Head(c_write_msgs_))

\* A session's second write is outstanding with a further message behind
\* it in the queue.
C13_Witness ==
    \E s \in Sessions :
        /\ s \notin writeFailed
        /\ wr[s]
        /\ writes[s] = 1
        /\ Len(wire[s]) = 2
        /\ Len(write_msgs_[s]) = 2
        /\ write_msgs_[s][1] # write_msgs_[s][2]

\* C14: the reads of one session follow one another: a body read is issued
\* only by the handler of a header read that completed without error with a
\* header that decodes (to a value in 0..512), and asks for exactly that
\* many bytes; the request does not change while the read is outstanding;
\* and a header read is issued only when the session starts or by the
\* handler of a completed body read, which has handed the message on (to
\* chat_room::deliver on the server, to std::cout on the client).
ReadsInTurn(was, now, msg, msgNow, starts, handedOn) ==
    /\ (now = "body" /\ was # "body")
       => /\ was = "header"
          /\ atoi(strncat_header(msgNow.header)) \in 0..max_body_length
          /\ msgNow.body_length = atoi(strncat_header(msgNow.header))
    /\ (now = "body" /\ was = "body") => msgNow = msg
    /\ (now = "header" /\ was # "header")
       => \/ was = "none" /\ starts
          \/ /\ was = "body"
             /\ handedOn
             /\ msgNow.header = msg.header
             /\ msgNow.body_length = msg.body_length
    /\ (now = "header" /\ was = "header") => msgNow = msg /\ ~handedOn

C14_ReadsSequential ==
    [][/\ \A s \in Sessions :
            ReadsInTurn(rd[s], rd'[s], read_msg_[s], read_msg_'[s],
                        life[s] = "unborn" /\ life'[s] = "live",
                        /\ delivered' = Append(delivered, read_msg_'[s])
                        /\ \A t \in Sessions \ {s} : rd'[t] = rd[t])
       /\ ReadsInTurn(c_rd, c_rd', c_read_msg_, c_read_msg_',
                      c_conn /\ ~c_conn',
                      c_out' = Append(c_out, body_bytes(c_read_msg_')))]_vars

\* A session has read a header, the 512-byte body it announced, delivered
\* the message and issued the next header read.
C14_Witness ==
    \E s \in Sessions :
        /\ rd[s] = "header"
        /\ delivered # <<>>
        /\ read_msg_[s] = delivered[Len(delivered)]
        /\ read_msg_[s].body_length = max_body_length
        /\ body_bytes(read_msg_[s]) = RFill(max_body_length, "a")

\* C15: enqueuing to a session whose transport is closed changes nothing:
\* when the handler posted by chat_client::write runs after socket_.close(),
\* the queue is left as it was and no write is started; and
\* chat_session::deliver is not called on a session that has left on an
\* error.
C15_EnqueueOnClosedIsNoOp ==
    [][/\ (/\ c_socket_ = "closed"
           /\ c_posted # <<>>
           /\ c_posted' = Tail(c_posted)
           /\ Head(c_posted).op = "write")
          => /\ c_write_msgs_' = c_write_msgs_
             /\ c_wire' = c_wire
             /\ c_wr' = c_wr
       /\ \A s \in errored : enq'[s] = enq[s]]_vars

\* C16: when the writes that stay outstanding complete, every message
\* enqueued to a session whose writes do not fail is eventually written and
\* taken off the queue: from some point on, every such session has written
\* as many messages as were ever enqueued to it, its queue is empty and it
\* has no write outstanding.
C16_QueueDrains ==
    <>[](\A s \in Sessions :
           \/ s \in writeFailed
           \/ /\ writes[s] = Len(enq[s])
              /\ write_msgs_[s] = <<>>
              /\ ~wr[s])

\* A session has been given two messages and has written them both; its
\* queue is empty again and no write is outstanding.
C16_Witness ==
    \E s \in Sessions :
        /\ Len(enq[s]) = MaxLiveDelivers
        /\ writes[s] = MaxLiveDelivers
        /\ life[s] = "live"
        /\ write_msgs_[s] = <<>>
        /\ ~wr[s]

\* C17: chat_room::leave of a session that is not a member changes nothing:
\* when a handler of a session that has already left takes its error branch
\* (a write error after a read error, or the other way round), the members,
\* the history and every queue stay as they are.
C17_LeaveIdempotent ==
    /\ [](\A s \in Sessions \ participants_ :
            room_leave(participants_, s) = participants_)
    /\ [][\A s \in Sessions :
            (SessionErrorStep(s) /\ s \notin participants_)
            => /\ participants_' = participants_
               /\ recent_msgs_' = recent_msgs_
               /\ delivered' = delivered
               /\ \A t \in Sessions \ {s} :
                    write_msgs_'[t] = write_msgs_[t] /\ enq'[t] = enq[t]
               /\ life'[s] = "live" => write_msgs_'[s] = write_msgs_[s]]_vars

\* A session has left twice, on a write error and on a read error, while
\* another session is a member with messages in its queue.
C17_Witness ==
    \E s \in writeFailed : \E t \in participants_ :
        /\ life[s] = "destroyed"
        /\ rd[s] = "none"
        /\ write_msgs_[t] # <<>>

\* C18: decode_header succeeds exactly when the number the 4 header bytes
\* begin with (leading spaces, then an optional sign, then the digits up to
\* the first byte that is not a digit; 0 when there is no digit) is in
\* 0..512, and then the body length is that number; otherwise the body
\* length is 0.  So a server session goes on to read a body exactly after
\* such a header, and a header without a number gives a message of length 0
\* that is delivered.
LeadingSpaces(h) ==
    CHOOSE i \in 0..Len(h) :
        /\ \A p \in 1..i : h[p] = " "
        /\ i = Len(h) \/ h[i + 1] # " "

DigitsUpTo(h, j) ==
    CHOOSE k \in j..Len(h) :
        /\ \A p \in (j + 1)..k : IsDigit(h[p])
        /\ k = Len(h) \/ ~IsDigit(h[k + 1])

HeaderValue(h) ==
    LET i == LeadingSpaces(h)
        signed == i < Len(h) /\ h[i + 1] \in {"+", "-"}
        j == IF signed THEN i + 1 ELSE i
        k == DigitsUpTo(h, j)
        place(p) == IF p > j /\ p <= k
                    THEN DigitVal(h[p]) * <<1, 10, 100, 1000>>[k - p + 1]
                    ELSE 0
        mag == place(1) + place(2) + place(3) + place(4)
    IN IF signed /\ h[i + 1] = "-" THEN 0 - mag ELSE mag

C18_DecodeExact ==
    /\ cpc = "parsed"
       => LET v == HeaderValue(cenc.header)
          IN /\ cok <=> v \in 0..max_body_length
             /\ cm.body_length = IF cok THEN v ELSE 0
             /\ cm.header = cenc.header
    /\ \A s \in Sessions :
         rd[s] = "body"
         => LET v == HeaderValue(read_msg_[s].header)
            IN v \in 0..max_body_length /\ read_msg_[s].body_length = v
    /\ \A i \in 1..Len(delivered) :
         delivered[i].body_length = HeaderValue(delivered[i].header)

\* A session read a header that begins with no number and a message of
\* length 0 with that header was delivered; the session is still a member.
C18_Witness ==
    \E s \in participants_ : \E i \in 1..Len(delivered) :
        /\ delivered[i].header = HJunk
        /\ delivered[i].body_length = 0
        /\ read_msg_[s] = delivered[i]
        /\ enq[s] # <<>>

\* C19: a session object exists exactly while it is a member of the room
\* or a read or write of it is outstanding: it is not destroyed before
\* that (no handler runs on a destroyed session), and it is destroyed when
\* it has left and its last operation has completed.
Referenced(s) == s \in participants_ \/ rd[s] # "none" \/ wr[s]

C19_SessionLifetime ==
    \A s \in Sessions :
        /\ life[s] \in {"unborn", "live", "destroyed"}
        /\ life[s] = "live" <=> Referenced(s)
        /\ life[s] = "destroyed" => s \in errored

\* One session was destroyed after its write and its read had both failed;
\* another has left on a write error and lives on for its outstanding read.
C19_Witness ==
    \E s, t \in Sessions :
        /\ life[s] = "destroyed"
        /\ s \in writeFailed
        /\ life[t] = "live"
        /\ t \in writeFailed
        /\ t \notin participants_
        /\ rd[t] = "body"

\* C20: the members of the room are exactly the sessions that have been
\* started and have not taken an error branch (a failed header read, header
\* decode, body read or write); a session is a member from its start, before
\* its first read completes, and is removed by nothing but its own error.
C20_MembershipExact ==
    /\ participants_ = {s \in Sessions : life[s] # "unborn"} \ errored
    /\ \A s \in Sessions :
         /\ life[s] = "unborn" => rd[s] = "none" /\ leftIdx[s] = -1
         /\ s \in errored <=> leftIdx[s] >= 0
         /\ (life[s] # "unborn" /\ s \notin errored)
            => rd[s] \in {"header", "body"}

\* Of two sessions started, one is a member and has delivered a message
\* after the other left on an error.
C20_Witness ==
    \E s \in participants_ : \E t \in errored :
        /\ s < t
        /\ rd[s] = "header"
        /\ Len(delivered) > leftIdx[t]
        /\ read_msg_[s] = delivered[Len(delivered)]

====
